---- MODULE Spec2Model ----
(***************************************************************************)
(* Form validation of biostar4/forum/forms.py as state machines.           *)
(*                                                                         *)
(* A string whose characters matter (a username) is a sequence of          *)
(* one-character strings; a string that is only compared and measured (an  *)
(* email, a password) is a TLA+ string.  A model object (a User) is a      *)
(* function from attribute names to values.  A validated form is a record  *)
(* with its input (data), is_valid() (valid), its errors (a set of         *)
(* <<field, code, args>> triples, the field "__all__" for a form-level     *)
(* error, args the values formatted into the message) and its              *)
(* cleaned_data (a function from field names to cleaned values).           *)
(***************************************************************************)
EXTENDS Integers, Sequences, FiniteSets, TLC

VARIABLES
    users,          \* User.objects: a sequence of User objects, in id order
    form,           \* the form validated last
    req,            \* per user: the profile-edit request in flight, or Idle
    profile_files,  \* len(user.profile.files()) of the edited profile
    max_file_num,   \* Profile.MAX_FILE_NUM
    obj,            \* the object handed to update()
    ret             \* what update() returned

vars == <<users, form, req, profile_files, max_file_num, obj, ret>>

\* ------------------------------------------------------------------ bounds

NumUsers == 2
MaxNormLen == 4
MaxTags == 11
MaxAccounts == 2
MaxFileNumBound == 4
NumAttrs == 3

\* ----------------------------------------------------------------- strings

Whitespace == {" ", "\t"}

Letters == <<"a", "b", "e", "r", "s", "u">>
Capitals == <<"A", "B", "E", "R", "S", "U">>

\* str.lower() on one character
LowerChar(c) ==
    IF \E i \in 1..Len(Capitals) : Capitals[i] = c
    THEN Letters[CHOOSE i \in 1..Len(Capitals) : Capitals[i] = c]
    ELSE c

lower(s) == [i \in 1..Len(s) |-> LowerChar(s[i])]

RECURSIVE lstrip(_, _)
lstrip(s, chars) ==
    IF s # <<>> /\ Head(s) \in chars THEN lstrip(Tail(s), chars) ELSE s

RECURSIVE rstrip(_, _)
rstrip(s, chars) ==
    IF s # <<>> /\ s[Len(s)] \in chars
    THEN rstrip(SubSeq(s, 1, Len(s) - 1), chars)
    ELSE s

\* str.strip(chars)
strip(s, chars) == rstrip(lstrip(s, chars), chars)

IsSpace(c) == c \in Whitespace
NotSpace(c) == ~IsSpace(c)

\* "".join(text.split()): the words between runs of whitespace, concatenated
join_split(s) == SelectSeq(s, NotSpace)

startswith(s, prefix) ==
    Len(s) >= Len(prefix) /\ SubSeq(s, 1, Len(prefix)) = prefix

USER == <<"u", "s", "e", "r">>

\* ------------------------------------------------------------------ forms

NoForm == [kind |-> "none"]
Idle == [kind |-> "idle"]

NoData == <<>>

Err(field, code, args) == <<field, code, args>>

Invalid(kind, data, errs) ==
    [kind |-> kind, user |-> 0, data |-> data, valid |-> FALSE, errors |-> errs,
     cleaned_data |-> NoData]

Valid(kind, data, cleaned) ==
    [kind |-> kind, user |-> 0, data |-> data, valid |-> TRUE, errors |-> {},
     cleaned_data |-> cleaned]

\* ----------------------------------------------------------------- update

RECURSIVE setattrs(_, _, _)
setattrs(o, cleaned, names) ==
    IF names = {} THEN o
    ELSE LET name == CHOOSE n \in names : TRUE
             o2 == IF name \in DOMAIN o
                   THEN [o EXCEPT ![name] = cleaned[name]]
                   ELSE o
         IN setattrs(o2, cleaned, names \ {name})

\* update() with the hasattr test left out: every cleaned field is set
RECURSIVE setattrs_nohasattr(_, _, _)
setattrs_nohasattr(o, cleaned, names) ==
    IF names = {} THEN o
    ELSE LET name == CHOOSE n \in names : TRUE
             o2 == [a \in DOMAIN o \cup {name} |->
                        IF a = name THEN cleaned[name] ELSE o[a]]
         IN setattrs_nohasattr(o2, cleaned, names \ {name})

update_nohasattr(o, f) ==
    IF f.valid
    THEN setattrs_nohasattr(o, f.cleaned_data, DOMAIN f.cleaned_data)
    ELSE o

update(o, f) ==
    IF f.valid
    THEN setattrs(o, f.cleaned_data, DOMAIN f.cleaned_data)
    ELSE o

\* ---------------------------------------------------- UserEditForm.username

\* The three rewriting lines of clean_username
normalise(text) == join_split(strip(lower(text), {" ", "@"}))

\* User.objects.filter(username=text)
filter_username(us, text) == {i \in 1..Len(us) : us[i].username = text}

\* clean_username with the lookup of the username left out
clean_username_nocheck(us, u, raw) ==
    LET text == normalise(raw) IN
    IF text # us[u].username /\ startswith(text, USER)
    THEN Invalid("UserEditForm", [username |-> raw], {Err("username", "reserved", <<>>)})
    ELSE Valid("UserEditForm", [username |-> raw], [username |-> text])

\* clean_username looking up the typed text, not the rewritten one
clean_username_rawlookup(us, u, raw) ==
    LET text == normalise(raw) IN
    IF text # us[u].username /\ filter_username(us, raw) # {}
    THEN Invalid("UserEditForm", [username |-> raw], {Err("username", "exists", <<text>>)})
    ELSE IF text # us[u].username /\ startswith(text, USER)
    THEN Invalid("UserEditForm", [username |-> raw], {Err("username", "reserved", <<>>)})
    ELSE Valid("UserEditForm", [username |-> raw], [username |-> text])

\* clean_username with its two tests in the other order
clean_username_reserved_first(us, u, raw) ==
    LET text == normalise(raw) IN
    IF text # us[u].username /\ startswith(text, USER)
    THEN Invalid("UserEditForm", [username |-> raw], {Err("username", "reserved", <<>>)})
    ELSE IF text # us[u].username /\ filter_username(us, text) # {}
    THEN Invalid("UserEditForm", [username |-> raw], {Err("username", "exists", <<text>>)})
    ELSE Valid("UserEditForm", [username |-> raw], [username |-> text])

\* UserEditForm(user, data) validated, the username field alone: the field's own
\* checks (required, max_length=10), then clean_username
clean_username(us, u, raw) ==
    LET text == normalise(raw) IN
    IF raw = <<>>
    THEN Invalid("UserEditForm", [username |-> raw], {Err("username", "required", <<>>)})
    ELSE IF Len(raw) > 10
    THEN Invalid("UserEditForm", [username |-> raw], {Err("username", "max_length", <<>>)})
    ELSE IF text # us[u].username /\ filter_username(us, text) # {}
    THEN Invalid("UserEditForm", [username |-> raw], {Err("username", "exists", <<text>>)})
    ELSE IF text # us[u].username /\ startswith(text, USER)
    THEN Invalid("UserEditForm", [username |-> raw], {Err("username", "reserved", <<>>)})
    ELSE Valid("UserEditForm", [username |-> raw], [username |-> text])

Digits == <<"1", "2", "3", "4", "5">>

\* An auto-generated username: the word user and the user's number
AutoName(i) == USER \o <<Digits[i]>>

UserIds == 1..NumUsers

\* What the users type into the username field
RawUsernames ==
    { <<"a">>, <<"@", "A">>, <<"a", " ">>, <<"b">>, <<"B", "\t">>, <<"e">>,
      <<"u", "s", "e", "r">>, <<"U", "s", "e", "r", "b">>,
      <<>>, <<"a", "a", "a", "a", "a", "a", "a", "a", "a", "a", "a">> }
    \cup { AutoName(i) : i \in UserIds }

\* The fewer inputs of the interleaved edits
RaceUsernames ==
    { <<"a">>, <<"@", "A">>, <<"b">>, <<"U", "s", "e", "r", "b">>, <<>> }
    \cup { AutoName(i) : i \in UserIds }

InitUsernames ==
    /\ users = [i \in UserIds |-> [username |-> AutoName(i)]]
    /\ form = NoForm
    /\ req = [i \in UserIds |-> Idle]
    /\ profile_files = 0
    /\ max_file_num = 0
    /\ obj = <<>>
    /\ ret = <<>>

\* A profile edit in one step: the form is validated and update() stores it
EditUsername(u, raw) ==
    LET f == clean_username(users, u, raw) IN
    /\ form' = [f EXCEPT !.user = u]
    /\ users' = [users EXCEPT ![u] = update(@, f)]
    /\ UNCHANGED <<req, profile_files, max_file_num, obj, ret>>

NextUsernames == \E u \in UserIds, raw \in RawUsernames : EditUsername(u, raw)

SpecUsernames == InitUsernames /\ [][NextUsernames]_vars

\* The same edit as two steps of a request, other requests running in between:
\* the form is validated, and later update() stores it
CheckUsername(u, raw) ==
    /\ req[u] = Idle
    /\ req' = [req EXCEPT ![u] = clean_username(users, u, raw)]
    /\ UNCHANGED <<users, form, profile_files, max_file_num, obj, ret>>

Respond(u) ==
    /\ req[u] # Idle
    /\ users' = [users EXCEPT ![u] = update(@, req[u])]
    /\ req' = [req EXCEPT ![u] = Idle]
    /\ UNCHANGED <<form, profile_files, max_file_num, obj, ret>>

NextRace ==
    \/ \E u \in UserIds, raw \in RaceUsernames : CheckUsername(u, raw)
    \/ \E u \in UserIds : Respond(u)

SpecRace == InitUsernames /\ [][NextRace]_vars

UniqueUsernames ==
    \A i, j \in 1..Len(users) : users[i].username = users[j].username => i = j

AutoNames == { AutoName(i) : i \in UserIds }

Holds(i, text) == users[i].username = text

\* A step in which user u's form is validated; one in which u's request ends
Checked(u) == req[u] = Idle /\ req'[u] # Idle
Responded(u) == req[u] # Idle /\ req'[u] = Idle

\* C1: in the two-step edit every check that passes for a new username saw no
\* holder of it, and every response to a valid form stores the checked
\* username without looking at the store again; the witness is the state the
\* claim says is reachable: two users hold the same new username.
C1_CheckThenSet ==
    [][ \A u \in UserIds :
          /\ (Checked(u) /\ req'[u].valid
                  /\ req'[u].cleaned_data.username # users[u].username)
             => \A i \in 1..Len(users) :
                    ~Holds(i, req'[u].cleaned_data.username)
          /\ (Responded(u) /\ req[u].valid)
             => users'[u].username = req[u].cleaned_data.username ]_vars

C1_TwoUsersOneName ==
    \E i, j \in UserIds :
        /\ i # j
        /\ users[i].username = users[j].username
        /\ users[i].username \notin AutoNames

\* C2: when every edit validates and stores in one step, no two distinct users
\* hold the same username.
C2_UsernamesUnique == UniqueUsernames

C2_TakenNameRefused ==
    /\ form.kind = "UserEditForm"
    /\ ~form.valid
    /\ \E i \in UserIds :
          /\ i # form.user
          /\ users[i].username \notin AutoNames
          /\ form.errors = {Err("username", "exists", <<users[i].username>>)}

\* C7: clean_username accepts the user's own current username whatever it is;
\* for another username it reports 'already exists' when some user holds it,
\* and otherwise 'may not start with user' when it starts with user.
C7_CleanUsernameCases ==
    [][ \A u \in UserIds :
          (Checked(u) /\ req'[u].data.username # <<>>
               /\ Len(req'[u].data.username) <= 10)
          => LET text == normalise(req'[u].data.username)
                 f == req'[u]
                 own == text = users[u].username
                 held == \E i \in 1..Len(users) : Holds(i, text)
             IN /\ own => f.valid /\ f.cleaned_data.username = text
                /\ (~own /\ held)
                     => ~f.valid /\ f.errors = {Err("username", "exists", <<text>>)}
                /\ (~own /\ ~held /\ startswith(text, USER))
                     => ~f.valid /\ f.errors = {Err("username", "reserved", <<>>)}
      ]_vars

C7_OwnSharedNameAccepted ==
    \E u, v \in UserIds :
        /\ u # v
        /\ users[u].username = users[v].username
        /\ req[u] # Idle
        /\ req[u].valid
        /\ req[u].cleaned_data.username = users[u].username

\* -------------------------------------------------- username normalisation

NormAlphabet == {"a", "A", "@", " ", "\t"}

NormInputs == UNION { [1..k -> NormAlphabet] : k \in 0..MaxNormLen }

NextNorm == \E raw \in NormInputs : EditUsername(1, raw)

SpecNorm == InitUsernames /\ [][NextNorm]_vars

\* C9: the username clean_username returns is a fixed point of its
\* normalisation.
C9_NormaliseIdempotent ==
    (form.kind = "UserEditForm" /\ form.valid)
    => normalise(form.cleaned_data.username) = form.cleaned_data.username

\* ------------------------------------------------------------- check_tags

\* The tags typed: tag i of the input, n characters long (a character is a
\* number here), or the input's first tag once more
Tag(i, n) == [k \in 1..n |-> i]

TagLens == {10, 11}

IsBig(tag) == Len(tag) > 10

\* check_tags testing for duplicates before counting the tags
check_tags_dups_first(tags) ==
    LET bigs == SelectSeq(tags, IsBig)
        dups == Cardinality({tags[i] : i \in 1..Len(tags)}) # Len(tags)
    IN IF dups
       THEN Invalid("TopLevel", [tags |-> tags], {Err("tags", "duplicated", <<>>)})
       ELSE IF Len(tags) > 10
       THEN Invalid("TopLevel", [tags |-> tags],
                    {Err("tags", "too_many", <<Len(tags)>>)})
       ELSE IF bigs # <<>>
       THEN Invalid("TopLevel", [tags |-> tags], {Err("tags", "too_long", bigs)})
       ELSE Valid("TopLevel", [tags |-> tags], [tags |-> tags])

\* check_tags refusing the tenth tag
check_tags_off_by_one(tags) ==
    LET bigs == SelectSeq(tags, IsBig)
        dups == Cardinality({tags[i] : i \in 1..Len(tags)}) # Len(tags)
    IN IF Len(tags) >= 10
       THEN Invalid("TopLevel", [tags |-> tags],
                    {Err("tags", "too_many", <<Len(tags)>>)})
       ELSE IF dups
       THEN Invalid("TopLevel", [tags |-> tags], {Err("tags", "duplicated", <<>>)})
       ELSE IF bigs # <<>>
       THEN Invalid("TopLevel", [tags |-> tags], {Err("tags", "too_long", bigs)})
       ELSE Valid("TopLevel", [tags |-> tags], [tags |-> tags])

\* The tags field of TopLevel validated by check_tags, given the list
\* parse_tags made of the text
check_tags(tags) ==
    LET bigs == SelectSeq(tags, IsBig)
        dups == Cardinality({tags[i] : i \in 1..Len(tags)}) # Len(tags)
    IN IF Len(tags) > 10
       THEN Invalid("TopLevel", [tags |-> tags],
                    {Err("tags", "too_many", <<Len(tags)>>)})
       ELSE IF dups
       THEN Invalid("TopLevel", [tags |-> tags], {Err("tags", "duplicated", <<>>)})
       ELSE IF bigs # <<>>
       THEN Invalid("TopLevel", [tags |-> tags], {Err("tags", "too_long", bigs)})
       ELSE Valid("TopLevel", [tags |-> tags], [tags |-> tags])

InitTags ==
    /\ form = check_tags(<<>>)
    /\ users = <<>>
    /\ req = <<>>
    /\ profile_files = 0
    /\ max_file_num = 0
    /\ obj = <<>>
    /\ ret = <<>>

\* The post form is submitted with one more tag than the time before
SubmitTags(tag) ==
    /\ Len(form.data.tags) < MaxTags
    /\ form' = check_tags(Append(form.data.tags, tag))
    /\ UNCHANGED <<users, req, profile_files, max_file_num, obj, ret>>

NextTags ==
    \/ \E n \in TagLens : SubmitTags(Tag(Len(form.data.tags) + 1, n))
    \/ form.data.tags # <<>> /\ SubmitTags(form.data.tags[1])

SpecTags == InitTags /\ [][NextTags]_vars

NoDuplicates(tags) ==
    \A i, j \in 1..Len(tags) : tags[i] = tags[j] => i = j

\* C4: check_tags accepts exactly the tag lists of at most 10 tags, no tag
\* twice, no tag longer than 10 characters.
C4_AcceptsIff ==
    form.valid <=>
        /\ Len(form.data.tags) <= 10
        /\ NoDuplicates(form.data.tags)
        /\ \A i \in 1..Len(form.data.tags) : Len(form.data.tags[i]) <= 10

C4_TenTagsAccepted ==
    /\ form.valid
    /\ Len(form.data.tags) = 10
    /\ \A i \in 1..10 : Len(form.data.tags[i]) = 10

\* C8: check_tags reports one error: too many tags with the count when more
\* than 10 tags are given; otherwise duplicated tags when a tag is there twice;
\* otherwise the tags longer than 10 characters, in input order.
C8_ErrorPriority ==
    LET tags == form.data.tags
        many == Len(tags) > 10
        dups == ~NoDuplicates(tags)
        long == {i \in 1..Len(tags) : Len(tags[i]) > 10}
    IN /\ Cardinality(form.errors) <= 1
       /\ many => form.errors = {Err("tags", "too_many", <<Len(tags)>>)}
       /\ (~many /\ dups) => form.errors = {Err("tags", "duplicated", <<>>)}
       /\ (~many /\ ~dups /\ long # {}) =>
            \E e \in form.errors :
                /\ e[1] = "tags" /\ e[2] = "too_long"
                /\ Len(e[3]) = Cardinality(long)
                /\ \A k \in 1..Len(e[3]) :
                     \E i \in long :
                        /\ e[3][k] = tags[i]
                        /\ Cardinality({j \in long : j < i}) = k - 1

C8_TooManyWins ==
    /\ Len(form.data.tags) > 10
    /\ ~NoDuplicates(form.data.tags)
    /\ \E i \in 1..Len(form.data.tags) : Len(form.data.tags[i]) > 10
    /\ form.errors = {Err("tags", "too_many", <<Len(form.data.tags)>>)}

\* ------------------------------------------------- signup, login, email

Emails == {"a@x.io", "b@x.io", "c@x.io", "d@x", ""}
Passwords == {"secret1", "secret2", "pw", ""}

\* User.objects.filter(email=email)
filter_email(us, email) == {i \in 1..Len(us) : us[i].email = email}

\* QuerySet.first()
first(us, ids) == us[CHOOSE i \in ids : \A j \in ids : i <= j]

\* user.check_password(password), the password hash taken as the password
check_password(user, password) == user.password = password

unique_email(us, email) ==
    IF filter_email(us, email) # {}
    THEN {Err("email", "exists", <<email>>)}
    ELSE {}

check_email(us, email) ==
    IF filter_email(us, email) = {}
    THEN {Err("email", "does_not_exist", <<email>>)}
    ELSE {}

\* A CharField's own checks: required, min_length, max_length
CharField(name, value, min, max) ==
    IF value = "" THEN {Err(name, "required", <<>>)}
    ELSE (IF Len(value) < min THEN {Err(name, "min_length", <<>>)} ELSE {})
         \cup (IF Len(value) > max THEN {Err(name, "max_length", <<>>)} ELSE {})

SignupForm(us, email, password) ==
    LET data == [email |-> email, password |-> password]
        errs == CharField("email", email, 5, 100)
                \cup (IF email # "" THEN unique_email(us, email) ELSE {})
                \cup CharField("password", password, 6, 100)
    IN IF errs = {} THEN Valid("SignupForm", data, data)
       ELSE Invalid("SignupForm", data, errs)

\* LoginForm without clean(): the password is never compared
LoginForm_anypassword(us, email, password) ==
    LET data == [email |-> email, password |-> password]
        errs == (IF email = "" THEN {Err("email", "required", <<>>)}
                 ELSE check_email(us, email))
                \cup (IF password = "" THEN {Err("password", "required", <<>>)}
                      ELSE {})
    IN IF errs = {} THEN Valid("LoginForm", data, data)
       ELSE Invalid("LoginForm", data, errs)

\* LoginForm validated: the fields (email with check_email), then clean(),
\* which sees only the fields that passed
LoginForm(us, email, password) ==
    LET data == [email |-> email, password |-> password]
        email_errs == IF email = "" THEN {Err("email", "required", <<>>)}
                      ELSE check_email(us, email)
        password_errs == IF password = "" THEN {Err("password", "required", <<>>)}
                         ELSE {}
        found == filter_email(us, email)
        valid == found # {} /\ check_password(first(us, found), password)
        clean_errs == IF email_errs = {} /\ password_errs = {} /\ ~valid
                      THEN {Err("__all__", "invalid_combination", <<>>)}
                      ELSE {}
        errs == email_errs \cup password_errs \cup clean_errs
    IN IF errs = {} THEN Valid("LoginForm", data, data)
       ELSE Invalid("LoginForm", data, errs)

\* clean_email with the lookup of the email left out
clean_email_nocheck(us, u, text) ==
    IF text = ""
    THEN Invalid("UserEditForm", [email |-> text], {Err("email", "required", <<>>)})
    ELSE Valid("UserEditForm", [email |-> text], [email |-> text])

\* UserEditForm(user, data) validated, the email field alone
clean_email(us, u, text) ==
    IF text = ""
    THEN Invalid("UserEditForm", [email |-> text], {Err("email", "required", <<>>)})
    ELSE IF text # us[u].email /\ filter_email(us, text) # {}
    THEN Invalid("UserEditForm", [email |-> text], {Err("email", "exists", <<text>>)})
    ELSE Valid("UserEditForm", [email |-> text], [email |-> text])

\* The user a valid signup creates
CreateUser(us, cleaned) ==
    Append(us, [email |-> cleaned.email, password |-> cleaned.password])

InitAccounts ==
    /\ users = <<>>
    /\ form = NoForm
    /\ req = <<>>
    /\ profile_files = 0
    /\ max_file_num = 0
    /\ obj = <<>>
    /\ ret = <<>>

Signup(email, password) ==
    LET f == SignupForm(users, email, password) IN
    /\ f.valid => Len(users) < MaxAccounts
    /\ form' = f
    /\ users' = IF f.valid THEN CreateUser(users, f.cleaned_data) ELSE users
    /\ UNCHANGED <<req, profile_files, max_file_num, obj, ret>>

EditEmail(u, text) ==
    LET f == clean_email(users, u, text) IN
    /\ form' = [f EXCEPT !.user = u]
    /\ users' = [users EXCEPT ![u] = update(@, f)]
    /\ UNCHANGED <<req, profile_files, max_file_num, obj, ret>>

Login(email, password) ==
    /\ form' = LoginForm(users, email, password)
    /\ UNCHANGED <<users, req, profile_files, max_file_num, obj, ret>>

NextAccounts ==
    \/ \E e \in Emails, p \in Passwords : Signup(e, p)
    \/ \E u \in 1..Len(users), e \in Emails : EditEmail(u, e)
    \/ \E e \in Emails, p \in Passwords : Login(e, p)

SpecAccounts == InitAccounts /\ [][NextAccounts]_vars

\* C5: after any signups and email edits no two distinct users have the same
\* email, and every user's own current email passes clean_email.
C5_EmailsUnique ==
    /\ \A i, j \in 1..Len(users) : users[i].email = users[j].email => i = j
    /\ \A u \in 1..Len(users) : clean_email(users, u, users[u].email).valid

C5_TakenEmailRefused ==
    /\ form.kind = "UserEditForm"
    /\ ~form.valid
    /\ \E i \in 1..Len(users) :
          /\ i # form.user
          /\ form.errors = {Err("email", "exists", <<users[i].email>>)}

\* C6: a login with a non-empty email and password is valid exactly when a
\* user has that email and that user's check_password accepts the password;
\* an email no user has gives the check_email error alone; the users are
\* left as they were.
C6_LoginValidIff ==
    [][ (form'.kind = "LoginForm" /\ form'.data.email # ""
             /\ form'.data.password # "")
        => LET e == form'.data.email
               p == form'.data.password
           IN /\ users' = users
              /\ form'.valid <=>
                     \E i \in 1..Len(users) :
                         users[i].email = e /\ check_password(users[i], p)
              /\ (\A i \in 1..Len(users) : users[i].email # e)
                     => form'.errors = {Err("email", "does_not_exist", <<e>>)}
      ]_vars

C6_WrongPasswordRefused ==
    /\ form.kind = "LoginForm"
    /\ form.errors = {Err("__all__", "invalid_combination", <<>>)}
    /\ \E i \in 1..Len(users) : users[i].email = form.data.email

\* --------------------------------------------------- UserEditForm.files

\* UserEditForm(user, data) validated, the files field alone: n files are
\* uploaded to a profile that has count files
clean_files(count, n, max) ==
    IF n > 3
    THEN Invalid("UserEditForm", [files |-> n], {Err("files", "max_num", <<>>)})
    ELSE IF n # 0 /\ count > max
    THEN Invalid("UserEditForm", [files |-> n],
                 {Err("files", "too_many", <<max, count>>)})
    ELSE Valid("UserEditForm", [files |-> n], [files |-> n])

\* The uploaded files are attached to the profile
AddFiles(count, n) == count + n

InitFiles ==
    /\ max_file_num \in 1..MaxFileNumBound
    /\ profile_files \in 0..max_file_num
    /\ form = NoForm
    /\ users = <<>>
    /\ req = <<>>
    /\ obj = <<>>
    /\ ret = <<>>

EditFiles(n) ==
    LET f == clean_files(profile_files, n, max_file_num) IN
    /\ form' = f
    /\ profile_files' = IF f.valid THEN AddFiles(profile_files, n)
                        ELSE profile_files
    /\ UNCHANGED <<users, req, max_file_num, obj, ret>>

NextFiles == \E n \in 0..4 : EditFiles(n)

SpecFiles == InitFiles /\ [][NextFiles]_vars

\* C3: the number of files attached to a profile never exceeds
\* Profile.MAX_FILE_NUM.
C3_FileLimit == profile_files <= max_file_num

\* ---------------------------------------------------------------- update()

AttrNames == <<"name", "email", "score", "text", "files">>
Attrs == {AttrNames[i] : i \in 1..NumAttrs}
AttrValues == {0, 1}

Objects == UNION { [D -> AttrValues] : D \in SUBSET Attrs }

InitUpdate ==
    /\ obj \in Objects
    /\ form \in [valid : BOOLEAN, cleaned_data : Objects]
    /\ ret = <<>>
    /\ users = <<>>
    /\ req = <<>>
    /\ profile_files = 0
    /\ max_file_num = 0

\* update(obj, form) is called: obj is changed in place and returned
Update ==
    /\ ret = <<>>
    /\ obj' = update(obj, form)
    /\ ret' = <<obj'>>
    /\ UNCHANGED <<users, form, req, profile_files, max_file_num>>

NextUpdate == Update

SpecUpdate == InitUpdate /\ [][NextUpdate]_vars

\* C10: update leaves obj as it was under an invalid form; under a valid form
\* obj keeps its attributes, those named in cleaned_data take the cleaned
\* values and the others keep theirs; obj is what update returns.
C10_UpdateFrame ==
    [][ Update =>
          /\ ret' = <<obj'>>
          /\ ~form.valid => obj' = obj
          /\ form.valid =>
                /\ DOMAIN obj' = DOMAIN obj
                /\ \A a \in DOMAIN obj :
                      obj'[a] = IF a \in DOMAIN form.cleaned_data
                                THEN form.cleaned_data[a]
                                ELSE obj[a]
      ]_vars

C10_SomeSetSomeKept ==
    /\ ret = <<obj>>
    /\ form.valid
    /\ DOMAIN form.cleaned_data \ DOMAIN obj # {}
    /\ DOMAIN obj \ DOMAIN form.cleaned_data # {}
    /\ \E a \in DOMAIN obj \cap DOMAIN form.cleaned_data :
          obj[a] = form.cleaned_data[a]

====
